---------------------------- MODULE Spec2Model ----------------------------
(***************************************************************************)
(* Model of the rhoas CLI documentation scripts:                           *)
(*   scripts/generate-cli-assembly.py  (the assembly generator)            *)
(*   scripts/format-cli-modules.py     (the command module formatter and   *)
(*                                      the dev-preview note injector)     *)
(*                                                                         *)
(* Text is modelled character by character: a str is a sequence of         *)
(* one-character strings, so that str.replace, the in test   and the       *)
(* regular expressions act on the same substrings as they do in Python.    *)
(***************************************************************************)
EXTENDS Naturals, Sequences, FiniteSets, TLC

VARIABLES
    modules,    \* the modules directory: entry name |-> file content
    assembly,   \* content of assemblies/assembly-cli-command-reference.adoc
    last,       \* the last run: which operation, what it read, what it wrote
    formatted,  \* names of the files format_command_file has already rewritten
    generated,  \* TRUE once the assembly file is the product of a generator run
    runs        \* number of runs so far

vars == <<modules, assembly, last, formatted, generated, runs>>

(***************************************************************************)
(* Bounds of the model.                                                    *)
(***************************************************************************)
MaxRuns == 3        \* runs of the scripts in one behaviour
MaxFiles == 3       \* entries in the modules directory
MaxAsmParts == 3    \* parts an arbitrary assembly file is made of
MaxDocParts == 2    \* parts a command file is made of

(***************************************************************************)
(* Characters.                                                             *)
(***************************************************************************)
\* The grave accent. SANY reads one inside a string as the start of a quotation,
\* so the character has a name here.
BackTick == "grave accent"

\* The ASCII characters in code point order (str comparison is by code point).
CodePoints ==
    <<"\t","\n","\f","\r"," ","!","\"","#","$","%","&","'","(",")","*","+",",","-",".","/",
      "0","1","2","3","4","5","6","7","8","9",":",";","<","=",">","?","@","A","B","C","D",
      "E","F","G","H","I","J","K","L","M","N","O","P","Q","R","S","T","U","V","W","X","Y",
      "Z","[","\\","]","^","_",BackTick,"a","b","c","d","e","f","g","h","i","j","k","l","m",
      "n","o","p","q","r","s","t","u","v","w","x","y","z","{","|","}","~">>

\* ord(c), up to the constant offset that comparisons do not see.
Ord(c) == CHOOSE i \in 1..Len(CodePoints) : CodePoints[i] = c

Chars == {CodePoints[i] : i \in 1..Len(CodePoints)}
LowerCase == {CodePoints[i] : i \in Ord("a")..Ord("z")}
UpperCase == {CodePoints[i] : i \in Ord("A")..Ord("Z")}
Digits == {CodePoints[i] : i \in Ord("0")..Ord("9")}

\* re: \s
WhiteSpace == {" ", "\t", "\n", "\r", "\f"}
\* re: \w
WordChars == LowerCase \cup UpperCase \cup Digits \cup {"_"}
\* re: . (without re.DOTALL)
IsDot(c) == c # "\n"

\* str.upper and str.lower of one character
upper(c) == IF c \in LowerCase THEN CodePoints[Ord(c) - (Ord("a") - Ord("A"))] ELSE c
lower(c) == IF c \in UpperCase THEN CodePoints[Ord(c) + (Ord("a") - Ord("A"))] ELSE c

\* The least and the greatest position of a set of positions, d if it is empty
MinOr(positions, d) ==
    IF positions = {} THEN d ELSE CHOOSE i \in positions : \A k \in positions : i <= k
MaxOr(positions, d) ==
    IF positions = {} THEN d ELSE CHOOSE i \in positions : \A k \in positions : i >= k

(***************************************************************************)
(* str operations.                                                         *)
(***************************************************************************)
\* s[i:] and s[i:j] with 1-based, inclusive positions
From(s, i) == SubSeq(s, i, Len(s))
Slice(s, i, j) == SubSeq(s, i, j)

\* s.startswith(p, i-1)
StartsAt(s, p, i) ==
    /\ i >= 1
    /\ i + Len(p) - 1 <= Len(s)
    /\ \A k \in 1..Len(p) : s[i + k - 1] = p[k]

\* s.startswith(p)
startswith(s, p) == StartsAt(s, p, 1)

\* s.find(p, i-1) + 1: the first position >= i where p occurs, 0 if none
find(s, p, i) == MinOr({j \in i..(Len(s) - Len(p) + 1) : StartsAt(s, p, j)}, 0)

\* p in s
In(p, s) == \E j \in 1..(Len(s) - Len(p) + 1) : StartsAt(s, p, j)

\* s.count(p), for a non-empty p: occurrences, leftmost first, not overlapping
RECURSIVE CountFrom(_, _, _)
CountAfter(s, p, j) == IF j = 0 THEN 0 ELSE 1 + CountFrom(s, p, j + Len(p))
CountFrom(s, p, i) == CountAfter(s, p, find(s, p, i))

count(s, p) == CountFrom(s, p, 1)

\* s.replace(old, new), every occurrence, leftmost first, not overlapping
RECURSIVE ReplaceFrom(_, _, _, _)
\* j is where old occurs next at or after i, 0 if nowhere
ReplaceNext(s, old, new, i, j) ==
    IF j = 0
    THEN From(s, i)
    ELSE Slice(s, i, j - 1) \o new \o ReplaceFrom(s, old, new, j + Len(old))
ReplaceFrom(s, old, new, i) == ReplaceNext(s, old, new, i, find(s, old, i))

\* With an empty old, str.replace puts new before every character and at the end.
Interleave(s, new) ==
    LET n == Len(new) + 1
    IN  [i \in 1..(Len(s) * n + Len(new)) |->
            IF i % n = 0 THEN s[i \div n] ELSE new[i % n]]

replace(s, old, new) ==
    IF old = <<>> THEN Interleave(s, new) ELSE ReplaceFrom(s, old, new, 1)

\* s.lstrip(), s.rstrip(), s.strip()
lstrip(s) == From(s, MinOr({i \in 1..Len(s) : s[i] \notin WhiteSpace}, Len(s) + 1))

rstrip(s) == Slice(s, 1, MaxOr({i \in 1..Len(s) : s[i] \notin WhiteSpace}, 0))

strip(s) == rstrip(lstrip(s))

\* s.capitalize(): first character upper case, the rest lower case
capitalize(s) ==
    [i \in 1..Len(s) |-> IF i = 1 THEN upper(s[i]) ELSE lower(s[i])]

\* "".join(parts)
RECURSIVE join(_)
join(parts) == IF parts = <<>> THEN <<>> ELSE Head(parts) \o join(Tail(parts))

(***************************************************************************)
(* Modular documentation constants of the two scripts.                     *)
(***************************************************************************)
\* [role=_abstract], with double quotes around _abstract
ABSTRACT ==
    <<"[","r","o","l","e","=","\"","_","a","b","s","t","r","a","c","t","\"","]">>
\* The [IMPORTANT] admonition block, delimiters included.
DEV_PREVIEW_NOTE ==
    <<"[","I","M","P","O","R","T","A","N","T","]","\n","=","=","=","=","\n","T","h","e"," ",
      BackTick,"r","h","o","a","s",BackTick," ","c","o","m","m","a","n","d","-","l","i","n",
      "e"," ","i","n","t","e","r","f","a","c","e"," ","(","C","L","I",")"," ","i","s"," ",
      "c","u","r","r","e","n","t","l","y"," ","a","v","a","i","l","a","b","l","e"," ","f",
      "o","r"," ","D","e","v","e","l","o","p","m","e","n","t"," ","P","r","e","v","i","e",
      "w","."," ","D","e","v","e","l","o","p","m","e","n","t"," ","P","r","e","v","i","e",
      "w"," ","r","e","l","e","a","s","e","s"," ","p","r","o","v","i","d","e"," ","e","a",
      "r","l","y"," ","a","c","c","e","s","s"," ","t","o"," ","a"," ","l","i","m","i","t",
      "e","d"," ","s","e","t"," ","o","f"," ","f","e","a","t","u","r","e","s"," ","t","h",
      "a","t"," ","m","i","g","h","t"," ","n","o","t"," ","b","e"," ","f","u","l","l","y",
      " ","t","e","s","t","e","d"," ","a","n","d"," ","t","h","a","t"," ","m","i","g","h",
      "t"," ","c","h","a","n","g","e"," ","i","n"," ","t","h","e"," ","f","i","n","a","l",
      " ","G","A"," ","v","e","r","s","i","o","n","."," ","U","s","e","r","s"," ","s","h",
      "o","u","l","d"," ","n","o","t"," ","u","s","e"," ","D","e","v","e","l","o","p","m",
      "e","n","t"," ","P","r","e","v","i","e","w"," ","s","o","f","t","w","a","r","e"," ",
      "i","n"," ","p","r","o","d","u","c","t","i","o","n"," ","o","r"," ","f","o","r"," ",
      "b","u","s","i","n","e","s","s","-","c","r","i","t","i","c","a","l"," ","w","o","r",
      "k","l","o","a","d","s","."," ","L","i","m","i","t","e","d"," ","d","o","c","u","m",
      "e","n","t","a","t","i","o","n"," ","i","s"," ","a","v","a","i","l","a","b","l","e",
      " ","f","o","r"," ","D","e","v","e","l","o","p","m","e","n","t"," ","P","r","e","v",
      "i","e","w"," ","r","e","l","e","a","s","e","s"," ","a","n","d"," ","i","s"," ","t",
      "y","p","i","c","a","l","l","y"," ","f","o","c","u","s","e","d"," ","o","n"," ","f",
      "u","n","d","a","m","e","n","t","a","l"," ","u","s","e","r"," ","g","o","a","l","s",
      ".","\n","=","=","=","=">>
\* [id=cli-command-reference_{context}], with double quotes around the id
ASSEMBLY_ID ==
    <<"[","i","d","=","\"","c","l","i","-","c","o","m","m","a","n","d","-","r","e","f","e",
      "r","e","n","c","e","_","{","c","o","n","t","e","x","t","}","\"","]">>
\* = CLI command reference
ASSEMBLY_TITLE ==
    <<"="," ","C","L","I"," ","c","o","m","m","a","n","d"," ","r","e","f","e","r","e","n",
      "c","e">>
\* You use the rhoas CLI to manage your application services from the command line.
ASSEMBLY_ABSTRACT_TEXT ==
    <<"Y","o","u"," ","u","s","e"," ","t","h","e"," ",BackTick,"r","h","o","a","s",BackTick,
      " ","C","L","I"," ","t","o"," ","m","a","n","a","g","e"," ","y","o","u","r"," ","a",
      "p","p","l","i","c","a","t","i","o","n"," ","s","e","r","v","i","c","e","s"," ","f",
      "r","o","m"," ","t","h","e"," ","c","o","m","m","a","n","d"," ","l","i","n","e",".">>
\* include::../{rhoas-module}/
ASSEMBLY_INCLUDE_DIRECTIVE ==
    <<"i","n","c","l","u","d","e",":",":",".",".","/","{","r","h","o","a","s","-","m","o",
      "d","u","l","e","}","/">>
\* [leveloffset=+1]
LEVELOFFSET ==
    <<"[","l","e","v","e","l","o","f","f","s","e","t","=","+","1","]">>

(***************************************************************************)
(* pathlib: the suffix and the stem of an entry name, and the order of     *)
(* entries of one directory (by name, character by character).             *)
(***************************************************************************)
\* name.rfind(".") + 1: the position of the last dot, 0 if none
rdot(name) ==
    IF \E i \in 1..Len(name) : name[i] = "."
    THEN CHOOSE i \in 1..Len(name) :
            /\ name[i] = "."
            /\ \A k \in (i + 1)..Len(name) : name[k] # "."
    ELSE 0

\* PurePath.suffix: empty when the only dot leads or ends the name
suffix(name) ==
    LET i == rdot(name)
    IN  IF 1 < i /\ i < Len(name) THEN From(name, i) ELSE <<>>

\* PurePath.stem
stem(name) ==
    LET i == rdot(name)
    IN  IF 1 < i /\ i < Len(name) THEN Slice(name, 1, i - 1) ELSE name

\* a < b for str
RECURSIVE StrLess(_, _)
StrLess(a, b) ==
    IF b = <<>> THEN FALSE
    ELSE IF a = <<>> THEN TRUE
    ELSE IF Head(a) = Head(b) THEN StrLess(Tail(a), Tail(b))
    ELSE Ord(Head(a)) < Ord(Head(b))

\* list.insert keeping the order
RECURSIVE Insert(_, _)
Insert(sortedSeq, x) ==
    IF sortedSeq = <<>> THEN <<x>>
    ELSE IF StrLess(x, Head(sortedSeq)) THEN <<x>> \o sortedSeq
    ELSE <<Head(sortedSeq)>> \o Insert(Tail(sortedSeq), x)

\* Mutant of sorted: the entries in the order iterdir yields them.
unsorted(listing) == listing

\* sorted(listing)
RECURSIVE sorted(_)
sorted(listing) ==
    IF listing = <<>> THEN <<>>
    ELSE Insert(sorted(Slice(listing, 1, Len(listing) - 1)), listing[Len(listing)])

\* Path.iterdir(): the entries of a directory, in an order the file system picks
iterdir(dir) ==
    {l \in [1..Cardinality(dir) -> dir] : \A i, j \in DOMAIN l : i # j => l[i] # l[j]}

DotAdoc == <<".", "a", "d", "o", "c">>
RefCli == <<"r", "e", "f", "-", "c", "l", "i">>
NL == <<"\n">>

(***************************************************************************)
(* generate-cli-assembly.py                                                *)
(***************************************************************************)
\* What the loop over the sorted entries writes.
RECURSIVE IncludeLines(_)
IncludeLines(commands) ==
    IF commands = <<>> THEN <<>>
    ELSE (IF suffix(Head(commands)) = DotAdoc
          THEN ASSEMBLY_INCLUDE_DIRECTIVE \o Head(commands) \o LEVELOFFSET \o NL
          ELSE <<>>)
         \o IncludeLines(Tail(commands))

\* Mutant of generate_command_ref_assembly: the abstract marker line is not written.
generate_without_abstract(listing) ==
    ASSEMBLY_ID \o NL
    \o ASSEMBLY_TITLE \o NL \o NL
    \o ASSEMBLY_ABSTRACT_TEXT \o NL \o NL
    \o IncludeLines(sorted(listing))

\* The content of the assembly file after generate_command_ref_assembly, given
\* the listing that module_path.iterdir() yields. mode="w" truncates the file,
\* so the result does not depend on what the file held.
generate_command_ref_assembly(listing) ==
    ASSEMBLY_ID \o NL
    \o ASSEMBLY_TITLE \o NL \o NL
    \o ABSTRACT \o NL \o ASSEMBLY_ABSTRACT_TEXT \o NL \o NL
    \o IncludeLines(sorted(listing))

(***************************************************************************)
(* format-cli-modules.py: add_dev_preview_note                             *)
(***************************************************************************)
\* Mutant of add_dev_preview_note: the note is inserted without looking for it first.
add_note_unchecked(content) ==
    [content |-> replace(content, ABSTRACT, DEV_PREVIEW_NOTE \o NL \o NL \o ABSTRACT),
     wrote |-> TRUE]

\* The file content after the call, and whether the file was opened for writing.
add_dev_preview_note(content) ==
    IF In(DEV_PREVIEW_NOTE, content)
    THEN [content |-> content, wrote |-> FALSE]
    ELSE [content |-> replace(content, ABSTRACT, DEV_PREVIEW_NOTE \o NL \o NL \o ABSTRACT),
          wrote |-> TRUE]

(***************************************************************************)
(* format-cli-modules.py: format_command_file                              *)
(*                                                                         *)
(* Each regular expression is written out as the matcher that the re       *)
(* module runs for it: the alternatives are tried in the pattern's order,  *)
(* greedy repeats take the longest run first and give characters back only *)
(* where a shorter run can make the rest of the pattern match.  A match is *)
(* a record with the position of its last character and its groups;        *)
(* NoMatch stands for None.                                                *)
(***************************************************************************)
NoMatch == [end |-> 0, groups |-> <<>>]

\* The first position >= i that holds a newline, Len(s) + 1 if none:
\* where a greedy .* or .+ that starts at i stops.
LineEnd(s, i) == MinOr({j \in i..Len(s) : s[j] = "\n"}, Len(s) + 1)

\* The first position >= i that holds no character of class, Len(s) + 1 if none:
\* where a greedy run of the class that starts at i stops.
RunEnd(s, i, class) == MinOr({j \in i..Len(s) : s[j] \notin class}, Len(s) + 1)

\* ^ under re.MULTILINE
AtLineStart(s, i) == i = 1 \/ (i - 1 <= Len(s) /\ s[i - 1] = "\n")

Rhoas == <<"r", "h", "o", "a", "s">>
Discrete == <<"[", "d", "i", "s", "c", "r", "e", "t", "e", "]">>

\* ---- title_regex, no flags. Group 1: ^, "==", \s, "rhoas", \s?, the rest of
\* the line. Group 2: one or more newlines. Group 3: the line after them.

\* (.*)(\n+)(.+) from position p on: .* runs to the end of the line, \n+ takes
\* every newline that follows, .+ the line after them.
TitleGroups(s, q, r) ==
    IF q <= Len(s) /\ r <= Len(s)
    THEN [end |-> LineEnd(s, r) - 1,
          groups |-> <<Slice(s, 1, q - 1), Slice(s, q, r - 1),
                       Slice(s, r, LineEnd(s, r) - 1)>>]
    ELSE NoMatch

TitleNewlines(s, q) == TitleGroups(s, q, RunEnd(s, q, {"\n"}))

TitleTail(s, p) == TitleNewlines(s, LineEnd(s, p))

\* first when it is a match, else second
OrElse(first, second) == IF first # NoMatch THEN first ELSE second

\* title_regex.search(content). Without re.MULTILINE ^ matches at the start of
\* the content only. \s? takes a whitespace character (a newline too) when
\* the rest then matches, and nothing otherwise.
title_search(content) ==
    IF /\ StartsAt(content, <<"=", "=">>, 1)
       /\ Len(content) >= 3 /\ content[3] \in WhiteSpace
       /\ StartsAt(content, Rhoas, 4)
    THEN OrElse(IF Len(content) >= 9 /\ content[9] \in WhiteSpace
                THEN TitleTail(content, 10)
                ELSE NoMatch,
                TitleTail(content, 9))
    ELSE NoMatch

\* "Make the title H1 and add module type and abstract metadata."
\* Mutant of new_doc_title: the heading keeps both of its markers.
new_doc_title_same_level(groups) == groups[1] \o NL \o NL \o ABSTRACT \o NL \o groups[3]

\* The replacement of the title: the heading without its first character, a
\* blank line, the abstract marker and the description line.
new_doc_title(groups) == Tail(groups[1]) \o NL \o NL \o ABSTRACT \o NL \o groups[3]

TitleReplace(content, doc_title) ==
    IF doc_title # NoMatch
    THEN replace(content, join(doc_title.groups), new_doc_title(doc_title.groups))
    ELSE content

TitlePass(content) == TitleReplace(content, title_search(content))

\* ---- heading_regex, no flags and no anchor. Group 1: three or more "=" and
\* one \s. Group 2: the rest of the line, at least one character.

\* heading_regex.match at position i
\* j is where the run of "=" that starts at i stops
HeadingGroups(s, i, j) ==
    IF /\ j - i >= 3
       /\ j <= Len(s) /\ s[j] \in WhiteSpace
       /\ j + 1 <= Len(s) /\ IsDot(s[j + 1])
    THEN [end |-> LineEnd(s, j + 1) - 1,
          groups |-> <<Slice(s, i, j), Slice(s, j + 1, LineEnd(s, j + 1) - 1)>>]
    ELSE NoMatch

HeadingAt(s, i) == HeadingGroups(s, i, RunEnd(s, i, {"="}))

\* heading_regex.findall(content): the groups of the matches, scanning from i
RECURSIVE HeadingFindall(_, _)
HeadingCollect(s, m) ==
    IF m = NoMatch THEN <<>> ELSE <<m.groups>> \o HeadingFindall(s, m.end + 1)
HeadingNext(s, j) == HeadingCollect(s, IF j = 0 THEN NoMatch ELSE HeadingAt(s, j))
HeadingFindall(s, i) ==
    HeadingNext(s, MinOr({j \in i..Len(s) : HeadingAt(s, j) # NoMatch}, 0))

\* The replacement of one heading.
new_heading(h) == Discrete \o NL \o Tail(h[1]) \o capitalize(h[2])

\* for h in heading_results: content = content.replace("".join(h), new_heading)
RECURSIVE HeadingLoop(_, _)
HeadingLoop(content, heading_results) ==
    IF heading_results = <<>> THEN content
    ELSE HeadingLoop(replace(content, join(Head(heading_results)),
                             new_heading(Head(heading_results))),
                     Tail(heading_results))

\* "Make subsections H2 and add discrete tag."
HeadingPass(content) == HeadingLoop(content, HeadingFindall(content, 1))

\* ---- link_regex, re.VERBOSE | re.MULTILINE, no anchor. Group 1: "*", \s,
\* "link:". Group 2: the anchor, one or more of \w and "-". Group 3: "{", \w+,
\* "}". Group 4: "[", one or more characters, "]". Group 5: the rest of the
\* line, at least one character.

LinkColon == <<"l", "i", "n", "k", ":">>
XrefPrefix == <<"*", " ", "x", "r", "e", "f", ":", "_">>

\* The last position k in lo..hi with s[k] = "]", 0 if none: the greedy .+ of
\* the link text gives back characters until a "]" ends the group.
LastBracket(s, lo, hi) == MaxOr({k \in lo..hi : s[k] = "]"}, 0)

\* The anchor is s[i+7..b-1], the suffix macro s[b..d], the link text s[d+1..k]
\* and the description s[k+1..eol-1]: at least one character inside the
\* brackets and one after them.
LinkGroups(s, i, b, d, eol, k) ==
    IF k # 0
    THEN [end |-> eol - 1,
          groups |-> <<Slice(s, i, i + 6), Slice(s, i + 7, b - 1), Slice(s, b, d),
                       Slice(s, d + 1, k), Slice(s, k + 1, eol - 1)>>]
    ELSE NoMatch

LinkText(s, i, b, d, eol) == LinkGroups(s, i, b, d, eol, LastBracket(s, d + 3, eol - 2))

LinkSuffix(s, i, b, d) ==
    IF /\ d > b + 1
       /\ d <= Len(s) /\ s[d] = "}"
       /\ d + 1 <= Len(s) /\ s[d + 1] = "["
    THEN LinkText(s, i, b, d, LineEnd(s, d + 2))
    ELSE NoMatch

LinkAnchor(s, i, b) ==
    IF b > i + 7 /\ b <= Len(s) /\ s[b] = "{"
    THEN LinkSuffix(s, i, b, RunEnd(s, b + 1, WordChars))
    ELSE NoMatch

\* link_regex.match at position i
LinkAt(s, i) ==
    IF /\ i + 6 <= Len(s)
       /\ s[i] = "*" /\ s[i + 1] \in WhiteSpace
       /\ StartsAt(s, LinkColon, i + 2)
    THEN LinkAnchor(s, i, RunEnd(s, i + 7, WordChars \cup {"-"}))
    ELSE NoMatch

\* link_regex.findall(content)
RECURSIVE LinkFindall(_, _)
LinkCollect(s, m) ==
    IF m = NoMatch THEN <<>> ELSE <<m.groups>> \o LinkFindall(s, m.end + 1)
LinkNext(s, j) == LinkCollect(s, IF j = 0 THEN NoMatch ELSE LinkAt(s, j))
LinkFindall(s, i) ==
    LinkNext(s, MinOr({j \in i..Len(s) : LinkAt(s, j) # NoMatch}, 0))

\* l[1].replace("-", "_")
Underscored(anchor) == [i \in 1..Len(anchor) |-> IF anchor[i] = "-" THEN "_" ELSE anchor[i]]

\* Mutant of new_link: the hyphens of the anchor are kept.
new_link_with_hyphens(l) == XrefPrefix \o l[2] \o l[4] \o <<" ">> \o lstrip(l[5])

\* The replacement of one link: f"* xref:_{l[1].replace('-', '_')}{l[3]} {l[4].lstrip()}"
new_link(l) == XrefPrefix \o Underscored(l[2]) \o l[4] \o <<" ">> \o lstrip(l[5])

\* for l in link_results: content = content.replace("".join(l), new_link)
RECURSIVE LinkLoop(_, _)
LinkLoop(content, link_results) ==
    IF link_results = <<>> THEN content
    ELSE LinkLoop(replace(content, join(Head(link_results)), new_link(Head(link_results))),
                  Tail(link_results))

\* "Convert links to valid xrefs."
LinkPass(content) == LinkLoop(content, LinkFindall(content, 1))

\* ---- option_regex, re.VERBOSE | re.MULTILINE. Group 1 (optional): ^, "....",
\* newline. Group 2: ^ and two or more \s. Group 3, one of
\*   (1) "-", \w, ",", \s, "--", one or more of a-z
\*   (2) "--", one or more of a-z and "-"
\*   (3) after five \s: one or more characters, as many as leave five \s next
\* Group 4 (optional): \s and \w+. Group 5: the rest of the line. Group 6
\* (optional): newline, "....".

FourDots == <<".", ".", ".", ".">>

\* s[i..j] holds whitespace only (and lies inside s)
AllSpace(s, i, j) == i >= 1 /\ j <= Len(s) /\ \A k \in i..j : s[k] \in WhiteSpace

\* e - 1 when the run that started at lo has at least one character, else 0
RunLast(lo, e) == IF e > lo THEN e - 1 ELSE 0

\* Alternative 1 of the option name at p: the position of its last character, 0 if none
ShortLongAt(s, p) ==
    IF /\ p + 5 <= Len(s)
       /\ s[p] = "-" /\ s[p + 1] \in WordChars /\ s[p + 2] = ","
       /\ s[p + 3] \in WhiteSpace
       /\ s[p + 4] = "-" /\ s[p + 5] = "-"
    THEN RunLast(p + 6, RunEnd(s, p + 6, LowerCase))
    ELSE 0

\* Alternative 2 of the option name at p
LongAt(s, p) ==
    IF p + 1 <= Len(s) /\ s[p] = "-" /\ s[p + 1] = "-"
    THEN RunLast(p + 2, RunEnd(s, p + 2, LowerCase \cup {"-"}))
    ELSE 0

\* The greedy .+ of alternative 3 gives characters back until five
\* whitespace characters follow: the last e in lo..hi with that, 0 if none.
LastBeforeSpaces(s, lo, hi) == MaxOr({e \in lo..hi : AllSpace(s, e + 1, e + 5)}, 0)

\* Alternative 3 of the option name at p
TextAt(s, p) ==
    IF AllSpace(s, p - 5, p - 1)
    THEN LastBeforeSpaces(s, p, LineEnd(s, p) - 1)
    ELSE 0

\* The first of the three that is not 0
FirstOf(one, two, three) ==
    IF one # 0 THEN one ELSE IF two # 0 THEN two ELSE three

\* Group 3 at p: the alternatives in the pattern's order
NameAt(s, p) == FirstOf(ShortLongAt(s, p), LongAt(s, p), TextAt(s, p))

\* Group 2 starts at b and may hold the whitespace up to hi: the longest run
\* of at least two characters after which group 3 matches; 0 if none.
IndentEnd(s, b, hi) == MaxOr({w \in (b + 1)..hi : NameAt(s, w + 1) # 0}, 0)

\* Groups 2 to 6 with group 2 = s[b..w], group 3 = s[w+1..n], group 4 =
\* s[n+1..t], group 5 = s[t+1..e] and group 6 = s[e+1..c]; opening is the text
\* of group 1. Once group 3 has matched the rest cannot fail: group 4 takes
\* \s\w+ when it is there, group 5 the rest of the line, group 6 the closing
\* delimiter when it is there.
OptionGroups(s, b, opening, w, n, t, e, c) ==
    [end |-> c,
     groups |-> <<opening, Slice(s, b, w), Slice(s, w + 1, n),
                  Slice(s, n + 1, t), Slice(s, t + 1, e), Slice(s, e + 1, c)>>]

OptionClose(s, b, opening, w, n, t, e) ==
    OptionGroups(s, b, opening, w, n, t, e,
                 IF StartsAt(s, NL \o FourDots, e + 1) THEN e + 5 ELSE e)

OptionDescription(s, b, opening, w, n, t) ==
    OptionClose(s, b, opening, w, n, t, LineEnd(s, t + 1) - 1)

OptionType(s, b, opening, w, n) ==
    OptionDescription(s, b, opening, w, n,
                      IF /\ n + 2 <= Len(s)
                         /\ s[n + 1] \in WhiteSpace
                         /\ s[n + 2] \in WordChars
                      THEN RunEnd(s, n + 2, WordChars) - 1
                      ELSE n)

OptionName(s, b, opening, w) ==
    IF w # 0 THEN OptionType(s, b, opening, w, NameAt(s, w + 1)) ELSE NoMatch

OptionFrom(s, b, opening) ==
    IF AtLineStart(s, b)
    THEN OptionName(s, b, opening, IndentEnd(s, b, RunEnd(s, b, WhiteSpace) - 1))
    ELSE NoMatch

\* option_regex.match at position i: with group 1 when it is there and the
\* rest matches after it, else without it.
OptionAt(s, i) ==
    OrElse(IF AtLineStart(s, i) /\ StartsAt(s, FourDots \o NL, i)
           THEN OptionFrom(s, i + 5, FourDots \o NL)
           ELSE NoMatch,
           OptionFrom(s, i, <<>>))

\* option_regex.findall(content)
RECURSIVE OptionFindall(_, _)
OptionCollect(s, m) ==
    IF m = NoMatch THEN <<>> ELSE <<m.groups>> \o OptionFindall(s, m.end + 1)
OptionNext(s, j) == OptionCollect(s, IF j = 0 THEN NoMatch ELSE OptionAt(s, j))
OptionFindall(s, i) ==
    OptionNext(s, MinOr({j \in i..Len(s) : OptionAt(s, j) # NoMatch}, 0))

Tick == <<BackTick>>
DefMark == <<BackTick, ":", ":", "\n">>

\* The replacement of one match of option_regex.
op_name(op) ==
    IF startswith(op[3], <<"-">>)
    THEN IF op[4] = <<>>
         THEN Tick \o op[3] \o DefMark \o strip(op[5])
         ELSE Tick \o op[3] \o <<" ", "_">> \o strip(op[4]) \o <<"_">> \o DefMark
              \o strip(op[5])
    ELSE IF startswith(op[3], <<" ">>)
    THEN NL
    ELSE <<"+", "\n">> \o strip(op[3])

\* for op in command_option_results: content = content.replace("".join(op), op_name)
RECURSIVE OptionLoop(_, _)
OptionLoop(content, command_option_results) ==
    IF command_option_results = <<>> THEN content
    ELSE OptionLoop(replace(content, join(Head(command_option_results)),
                            op_name(Head(command_option_results))),
                    Tail(command_option_results))

\* "Convert options to def lists."
OptionPass(content) == OptionLoop(content, OptionFindall(content, 1))

\* format_command_file: the content written back to cli_file
format_command_file(content) == OptionPass(LinkPass(HeadingPass(TitlePass(content))))

(***************************************************************************)
(* The files the scripts are run on.                                       *)
(***************************************************************************)
\* Entry names of the modules directory.
\* ref-cli-foo.adoc
RefCliFoo ==
    <<"r","e","f","-","c","l","i","-","f","o","o",".","a","d","o","c">>
\* ref-cli-bar.adoc
RefCliBar ==
    <<"r","e","f","-","c","l","i","-","b","a","r",".","a","d","o","c">>
\* notes.txt
NotesTxt ==
    <<"n","o","t","e","s",".","t","x","t">>
\* notes.adoc
NotesAdoc ==
    <<"n","o","t","e","s",".","a","d","o","c">>
\* .adoc
HiddenAdoc ==
    <<".","a","d","o","c">>
\* x[role='_abstract'].adoc
MarkerAdoc ==
    <<"x","[","r","o","l","e","=","\"","_","a","b","s","t","r","a","c","t","\"","]",".","a",
      "d","o","c">>
EntryNames == {RefCliFoo, RefCliBar, NotesTxt, NotesAdoc, HiddenAdoc, MarkerAdoc}

\* Parts of a command file, as the CLI's documentation generator emits them.
\* == rhoas kafka\n\nManage Kafka.\n
TitleLines ==
    <<"=","="," ","r","h","o","a","s"," ","k","a","f","k","a","\n","\n","M","a","n","a","g",
      "e"," ","K","a","f","k","a",".","\n">>
\* == rhoas\n\nThe rhoas CLI.\n
RootTitleLines ==
    <<"=","="," ","r","h","o","a","s","\n","\n","T","h","e"," ","r","h","o","a","s"," ","C",
      "L","I",".","\n">>
\* === Options\n
OptionsHeading ==
    <<"=","=","="," ","O","p","t","i","o","n","s","\n">>
\* ==== Options\n
DeepOptionsHeading ==
    <<"=","=","=","="," ","O","p","t","i","o","n","s","\n">>
\* === SEE ALSO\n
SeeAlsoHeading ==
    <<"=","=","="," ","S","E","E"," ","A","L","S","O","\n">>
\* * link:rhoas-kafka{relfilesuffix}[rhoas kafka]\t - Manage Kafka\n
LinkBullet ==
    <<"*"," ","l","i","n","k",":","r","h","o","a","s","-","k","a","f","k","a","{","r","e",
      "l","f","i","l","e","s","u","f","f","i","x","}","[","r","h","o","a","s"," ","k","a",
      "f","k","a","]","\t"," ","-"," ","M","a","n","a","g","e"," ","K","a","f","k","a","\n">>
\* * link:rhoas-kafka{relfilesuffix}[rhoas kafka]\t\n
BlankLinkBullet ==
    <<"*"," ","l","i","n","k",":","r","h","o","a","s","-","k","a","f","k","a","{","r","e",
      "l","f","i","l","e","s","u","f","f","i","x","}","[","r","h","o","a","s"," ","k","a",
      "f","k","a","]","\t","\n">>
\*   -o, --output string   Format\n
TypedOption ==
    <<" "," ","-","o",","," ","-","-","o","u","t","p","u","t"," ","s","t","r","i","n","g",
      " "," "," ","F","o","r","m","a","t","\n">>
\*   -h, --help   Show help\n
HelpOption ==
    <<" "," ","-","h",","," ","-","-","h","e","l","p"," "," "," ","S","h","o","w"," ","h",
      "e","l","p","\n">>
\*       --version   Show version\n
LongOption ==
    <<" "," "," "," "," "," ","-","-","v","e","r","s","i","o","n"," "," "," ","S","h","o",
      "w"," ","v","e","r","s","i","o","n","\n">>
\*   -f, --api-url string   URL\n
HyphenOption ==
    <<" "," ","-","f",","," ","-","-","a","p","i","-","u","r","l"," ","s","t","r","i","n",
      "g"," "," "," ","U","R","L","\n">>
\* Examples follow.\n
PlainLine ==
    <<"E","x","a","m","p","l","e","s"," ","f","o","l","l","o","w",".","\n">>
CommandParts ==
    {TitleLines,
     RootTitleLines,
     OptionsHeading,
     DeepOptionsHeading,
     SeeAlsoHeading,
     LinkBullet,
     BlankLinkBullet,
     TypedOption,
     HelpOption,
     LongOption,
     HyphenOption,
     PlainLine}

\* The texts made of at most n parts
Texts(parts, n) == {join(p) : p \in UNION {[1..k -> parts] : k \in 0..n}}

CommandFiles == Texts(CommandParts, MaxDocParts)

\* Parts of an assembly file that somebody wrote or edited by hand.
AssemblyParts == {ABSTRACT \o NL, DEV_PREVIEW_NOTE \o NL \o NL, ASSEMBLY_TITLE \o NL \o NL}

AssemblyFiles == Texts(AssemblyParts, MaxAsmParts)

\* The directories of at most MaxFiles entries
Directories == {d \in SUBSET EntryNames : Cardinality(d) <= MaxFiles}

(***************************************************************************)
(* The runs.                                                               *)
(***************************************************************************)
NoRun == [op |-> "none"]

\* generate-cli-assembly.py: main
GenerateAssembly ==
    /\ runs < MaxRuns
    /\ \E listing \in iterdir(DOMAIN modules) :
          /\ assembly' = generate_command_ref_assembly(listing)
          /\ last' = [op |-> "generate", listing |-> listing, input |-> assembly,
                      output |-> assembly']
    /\ generated' = TRUE
    /\ runs' = runs + 1
    /\ UNCHANGED <<modules, formatted>>

\* format-cli-modules.py: add_dev_preview_note(assembly_file)
AddDevPreviewNote ==
    /\ runs < MaxRuns
    /\ \E r \in {add_dev_preview_note(assembly)} :
          /\ assembly' = r.content
          /\ last' = [op |-> "note", input |-> assembly, output |-> r.content,
                      wrote |-> r.wrote]
    /\ runs' = runs + 1
    /\ UNCHANGED <<modules, formatted, generated>>

\* format-cli-modules.py: format_command_file(cli_file), pass by pass
FormatCommandFile(f) ==
    /\ runs < MaxRuns
    /\ f \in DOMAIN modules
    /\ \E title \in {TitlePass(modules[f])} :
       \E headings \in {HeadingPass(title)} :
       \E links \in {LinkPass(headings)} :
       \E options \in {OptionPass(links)} :
          /\ modules' = [modules EXCEPT ![f] = options]
          /\ last' = [op |-> "format", name |-> f, input |-> modules[f],
                      title |-> title, headings |-> headings, links |-> links,
                      output |-> options, again |-> f \in formatted]
    /\ formatted' = formatted \cup {f}
    /\ runs' = runs + 1
    /\ UNCHANGED <<assembly, generated>>

\* The test of main's loop for the files to format.
is_command_file(name) == startswith(stem(name), RefCli) /\ suffix(name) = DotAdoc

\* format-cli-modules.py: main
FormatterMain ==
    /\ runs < MaxRuns
    /\ modules' = [n \in DOMAIN modules |->
                      IF is_command_file(n) THEN format_command_file(modules[n])
                      ELSE modules[n]]
    /\ \E r \in {add_dev_preview_note(assembly)} :
          /\ assembly' = r.content
          /\ last' = [op |-> "main", input |-> modules, output |-> modules',
                      note |-> [input |-> assembly, output |-> r.content,
                                wrote |-> r.wrote]]
    /\ formatted' = formatted \cup {n \in DOMAIN modules : is_command_file(n)}
    /\ runs' = runs + 1
    /\ UNCHANGED generated

(***************************************************************************)
(* Spec: the build pipeline. The modules directory holds any entries, the  *)
(* assembly file is there (from an earlier build or written by hand), and  *)
(* the generator and the formatter run in any order.                       *)
(***************************************************************************)
Init ==
    /\ \E dir \in Directories, text \in {TitleLines \o DeepOptionsHeading, LinkBullet} :
          modules = [n \in dir |-> text]
    /\ assembly \in {<<>>, ABSTRACT \o NL}
    /\ last = NoRun
    /\ formatted = {}
    /\ generated = FALSE
    /\ runs = 0

Next == GenerateAssembly \/ FormatterMain \/ AddDevPreviewNote

Spec == Init /\ [][Next]_vars

(***************************************************************************)
(* SpecNote: add_dev_preview_note on any assembly file.                    *)
(***************************************************************************)
InitNote ==
    /\ modules = [n \in {RefCliFoo} |-> TitleLines]
    /\ assembly \in AssemblyFiles
    /\ last = NoRun
    /\ formatted = {}
    /\ generated = FALSE
    /\ runs = 0

NextNote == AddDevPreviewNote

SpecNote == InitNote /\ [][NextNote]_vars

(***************************************************************************)
(* SpecFormat: format_command_file on any command file, run after run.     *)
(***************************************************************************)
InitFormat ==
    /\ \E text \in CommandFiles : modules = [n \in {RefCliFoo} |-> text]
    /\ assembly = generate_command_ref_assembly(<<RefCliFoo>>)
    /\ last = NoRun
    /\ formatted = {}
    /\ generated = TRUE
    /\ runs = 0

NextFormat == \E f \in DOMAIN modules : FormatCommandFile(f)

SpecFormat == InitFormat /\ [][NextFormat]_vars

(***************************************************************************)
(* The claims about the assembly file.                                     *)
(***************************************************************************)
\* The admonition, a blank line and the abstract-role marker
NoteBeforeMarker == DEV_PREVIEW_NOTE \o NL \o NL \o ABSTRACT

\* C1 (as claimed): after add_dev_preview_note has run on an assembly file that
\* did not hold the admonition, the file holds the admonition exactly once,
\* directly before the abstract-role marker with one blank line between them,
\* whatever the number of markers the file held.
C1_NoteExactlyOnce ==
    (last.op = "note" /\ ~In(DEV_PREVIEW_NOTE, last.input)) =>
        /\ count(assembly, DEV_PREVIEW_NOTE) = 1
        /\ In(NoteBeforeMarker, assembly)

\* C2: add_dev_preview_note is idempotent. A run that follows another run
\* leaves the content as it is, and a run on a file that holds the admonition
\* leaves the content as it is and does not open the file for writing.
C2_NoteIdempotent ==
    [][(runs' # runs /\ last'.op = "note") =>
          /\ last.op = "note" => assembly' = assembly
          /\ In(DEV_PREVIEW_NOTE, assembly) => (assembly' = assembly /\ ~last'.wrote)
      ]_vars

\* C2 witness: the second of two runs, the first of which inserted the note.
C2_Witness ==
    /\ last.op = "note" /\ runs = 2
    /\ ~last.wrote
    /\ count(assembly, DEV_PREVIEW_NOTE) = 1
    /\ In(NoteBeforeMarker, assembly)

\* The name ends with .adoc and has at least one character before it.
HasAdocExtension(name) ==
    /\ Len(name) > Len(DotAdoc)
    /\ Slice(name, Len(name) - Len(DotAdoc) + 1, Len(name)) = DotAdoc

\* The fixed header of the assembly file
AssemblyHeader ==
    ASSEMBLY_ID \o NL \o ASSEMBLY_TITLE \o NL \o NL
    \o ABSTRACT \o NL \o ASSEMBLY_ABSTRACT_TEXT \o NL \o NL

\* One include directive line for each name of the sequence
DirectivesFor(names) ==
    join([i \in 1..Len(names) |->
             ASSEMBLY_INCLUDE_DIRECTIVE \o names[i] \o LEVELOFFSET \o NL])

\* The sequences that hold each name of the set once, in ascending order
Ascending(names) ==
    {order \in [1..Cardinality(names) -> names] :
        \A i, j \in DOMAIN order : i < j => StrLess(order[i], order[j])}

\* C3: after a generator run the assembly file is the fixed header followed by
\* one include directive, ending in [leveloffset=+1], for each entry whose
\* extension is .adoc, in ascending order of the names, and nothing else:
\* no directive for another entry, nothing of the previous content.
C3_GeneratedAssembly ==
    last.op = "generate" =>
        \E order \in Ascending({n \in DOMAIN modules : HasAdocExtension(n)}) :
            assembly = AssemblyHeader \o DirectivesFor(order)

\* C3 witness: a run on a directory with two command files and a text file,
\* listed out of order, over an assembly file that held something else.
C3_Witness ==
    /\ last.op = "generate"
    /\ DOMAIN modules = {RefCliFoo, RefCliBar, NotesTxt}
    /\ last.listing = <<RefCliFoo, NotesTxt, RefCliBar>>
    /\ last.input # <<>> /\ last.input # assembly
    /\ assembly = AssemblyHeader \o DirectivesFor(<<RefCliBar, RefCliFoo>>)

\* The include directive of an entry
DirectiveOf(name) == ASSEMBLY_INCLUDE_DIRECTIVE \o name \o LEVELOFFSET \o NL

\* C9 (as claimed): the generator includes exactly the entries that the
\* formatter's scan formats, and the formatter leaves every other file as it
\* was. Read off the state after a formatter run on a directory whose
\* assembly file the generator wrote.
C9_SameSelection ==
    (generated /\ last.op = "main") =>
        \A n \in DOMAIN modules :
            /\ In(DirectiveOf(n), assembly) <=> n \in formatted
            /\ n \notin formatted => last.output[n] = last.input[n]

\* The include directive lines of a text, in the order they stand in it
RECURSIVE DirectiveLines(_, _)
DirectiveLines(s, i) ==
    LET j == MinOr({k \in i..Len(s) :
                       AtLineStart(s, k) /\ StartsAt(s, ASSEMBLY_INCLUDE_DIRECTIVE, k)}, 0)
    IN  IF j = 0 THEN <<>>
        ELSE <<Slice(s, j, LineEnd(s, j) - 1)>> \o DirectiveLines(s, LineEnd(s, j))

\* The places of the abstract-role marker lines of a text
MarkerLines(s) ==
    {i \in 1..Len(s) : AtLineStart(s, i) /\ Slice(s, i, LineEnd(s, i) - 1) = ABSTRACT}

\* What the last run of add_dev_preview_note read and wrote
LastNote == IF last.op = "main" THEN last.note ELSE last

\* The properties C10 claims of an assembly file that a generator run wrote
\* and that only generator and note runs have touched since.
PipelineAssembly ==
    /\ count(assembly, DEV_PREVIEW_NOTE) <= 1
    /\ Cardinality(MarkerLines(assembly)) <= 1
    /\ last.op \in {"note", "main"} =>
          /\ count(assembly, DEV_PREVIEW_NOTE) = 1
          /\ In(NoteBeforeMarker, assembly)
          /\ DirectiveLines(LastNote.output, 1) = DirectiveLines(LastNote.input, 1)
    /\ last.op = "generate" => count(assembly, DEV_PREVIEW_NOTE) = 0

\* C10 (as claimed): for every directory, in every sequence of generator and
\* note runs that starts with a generator run.
C10_PipelineAssembly == generated => PipelineAssembly

\* No included entry has the abstract-role marker in its name.
PlainNames == \A n \in DOMAIN modules : HasAdocExtension(n) => ~In(ABSTRACT, n)

\* C10 for plain entry names: the same holds for the directories in which no
\* entry with the .adoc extension has the text of the abstract-role marker in
\* its name.
C10_PlainNames == (generated /\ PlainNames) => PipelineAssembly

\* C10 for plain entry names, reached: a note run after a generator run that listed two .adoc entries.
C10_Witness ==
    /\ generated /\ PlainNames
    /\ last.op = "note" /\ last.wrote
    /\ {RefCliFoo, NotesAdoc} \subseteq DOMAIN modules
    /\ count(assembly, DEV_PREVIEW_NOTE) = 1
    /\ Len(DirectiveLines(assembly, 1)) = 2

(***************************************************************************)
(* The claims about format_command_file. The shapes the claims speak of    *)
(* (a heading, a link bullet, an option line) are read off the text here   *)
(* line by line, without the regular expressions of the code.              *)
(***************************************************************************)
LineStarts(s) == {i \in 1..Len(s) : AtLineStart(s, i)}

\* The line that starts at i
LineAt(s, i) == Slice(s, i, LineEnd(s, i) - 1)

Lines(s) == {LineAt(s, i) : i \in LineStarts(s)}

endswith(s, p) == Len(p) <= Len(s) /\ From(s, Len(s) - Len(p) + 1) = p

\* The text stands in s as whole lines.
HoldsLines(s, text) ==
    \E i \in LineStarts(s) :
        /\ StartsAt(s, text, i)
        /\ (i + Len(text) = Len(s) + 1 \/ s[i + Len(text)] = "\n")

Repeat(c, n) == [i \in 1..n |-> c]

TitleStart == <<"=", "=", " ">> \o Rhoas

\* A heading == rhoas... starts at i, and newlines and a description line follow.
TitleHeadingAt(s, i) ==
    /\ AtLineStart(s, i)
    /\ StartsAt(s, TitleStart, i)
    /\ LineEnd(s, i) <= Len(s)
    /\ RunEnd(s, LineEnd(s, i), {"\n"}) <= Len(s)

\* What title promotion is to make of the heading at i and its description
PromotedTitle(s, i) ==
    Tail(LineAt(s, i)) \o NL \o NL \o ABSTRACT \o NL
    \o LineAt(s, RunEnd(s, LineEnd(s, i), {"\n"}))

\* C7 (as claimed): a heading == rhoas... followed by newlines and a
\* description, wherever it stands in the file, is rewritten with one marker
\* fewer, a blank line, the abstract marker line and the description line; a
\* file without such a heading is left as it is by title promotion.
C7_TitleAnywhere ==
    last.op = "format" =>
        /\ \A i \in LineStarts(last.input) :
              TitleHeadingAt(last.input, i) =>
                  HoldsLines(last.title, PromotedTitle(last.input, i))
        /\ (\A i \in LineStarts(last.input) : ~TitleHeadingAt(last.input, i)) =>
              last.title = last.input

\* C7 (amended): title promotion looks at the start of the file only. When
\* the file starts with a heading == rhoas that has more text on its line,
\* followed by newlines and a description, the output starts with the
\* heading with one marker fewer, a blank line, the abstract marker line and
\* the description line. When the heading is == rhoas alone and two or more
\* newlines follow it, the same holds with two blank lines in place of one.
\* When the file does not start with ==, a whitespace character and rhoas,
\* title promotion leaves it as it is, also when such a heading stands on a
\* later line.
C7_TitleAtStart ==
    last.op = "format" =>
        /\ (TitleHeadingAt(last.input, 1) /\ LineEnd(last.input, 1) > Len(TitleStart) + 1) =>
              /\ startswith(last.title, PromotedTitle(last.input, 1))
              /\ HoldsLines(last.title, PromotedTitle(last.input, 1))
        /\ (/\ TitleHeadingAt(last.input, 1)
            /\ LineEnd(last.input, 1) = Len(TitleStart) + 1
            /\ RunEnd(last.input, LineEnd(last.input, 1), {"\n"}) > Len(TitleStart) + 2) =>
              /\ startswith(last.title,
                            Tail(TitleStart) \o NL \o NL \o NL \o ABSTRACT \o NL
                            \o LineAt(last.input,
                                      RunEnd(last.input, LineEnd(last.input, 1), {"\n"})))
              /\ ~HoldsLines(last.title, PromotedTitle(last.input, 1))
        /\ ~(/\ StartsAt(last.input, <<"=", "=">>, 1)
             /\ Len(last.input) >= 3 /\ last.input[3] \in WhiteSpace
             /\ StartsAt(last.input, Rhoas, 4)) =>
              last.title = last.input

\* C7 witness: a file that starts with the title of a command has been formatted.
C7_Witness ==
    /\ last.op = "format"
    /\ startswith(last.input, TitleLines)
    /\ last.title # last.input
    /\ startswith(last.title, Tail(LineAt(TitleLines, 1)) \o NL \o NL \o ABSTRACT \o NL)

\* C7 witness of the other cases: a file with the title on a later line and a
\* file that starts with the bare title have been formatted.
C7_LaterTitle ==
    /\ last.op = "format"
    /\ \E i \in LineStarts(last.input) : i > 1 /\ TitleHeadingAt(last.input, i)
    /\ ~TitleHeadingAt(last.input, 1)
    /\ last.title = last.input

\* The headings of three or more markers: the number of markers and the text
HeadingLines(s) ==
    {[markers |-> RunEnd(s, i, {"="}) - i,
      text |-> Slice(s, RunEnd(s, i, {"="}) + 1, LineEnd(s, i) - 1)] :
        i \in {k \in LineStarts(s) :
                  /\ RunEnd(s, k, {"="}) - k >= 3
                  /\ RunEnd(s, k, {"="}) + 1 < LineEnd(s, k)
                  /\ s[RunEnd(s, k, {"="})] = " "}}

\* C4 (as claimed): for every heading of n >= 3 markers the output holds a
\* [discrete] line and after it the heading with n - 1 markers and its text
\* capitalized, also when several headings have the same text.
C4_HeadingsPromoted ==
    last.op = "format" =>
        \A h \in HeadingLines(last.input) :
            HoldsLines(last.headings,
                       Discrete \o NL \o Repeat("=", h.markers - 1) \o <<" ">>
                       \o capitalize(h.text))

\* C8 (as claimed): formatting a file that has been formatted changes nothing.
C8_FormatIdempotent ==
    (last.op = "format" /\ last.again) => last.output = last.input

\* The link bullets of a text, each on a line of its own: the anchor, the
\* suffix macro, the bracketed link text (up to the first closing bracket),
\* the description and the whole line.
LinkBulletAt(s, i) ==
    LET a == i + 7
        b == RunEnd(s, a, WordChars \cup {"-"})
        d == RunEnd(s, b + 1, WordChars)
        eol == LineEnd(s, i)
        k == MinOr({j \in (d + 2)..(eol - 1) : s[j] = "]"}, 0)
    IN  IF /\ StartsAt(s, <<"*", " ">> \o LinkColon, i)
           /\ b > a /\ b < eol /\ s[b] = "{"
           /\ d > b + 1 /\ d + 1 < eol /\ s[d] = "}" /\ s[d + 1] = "["
           /\ k >= d + 3 /\ k < eol - 1
        THEN {[anchor |-> Slice(s, a, b - 1), suffix |-> Slice(s, b, d),
               text |-> Slice(s, d + 1, k), description |-> Slice(s, k + 1, eol - 1),
               line |-> LineAt(s, i), stem |-> k - i + 1]}
        ELSE {}

LinkBullets(s) == UNION {LinkBulletAt(s, i) : i \in LineStarts(s)}

WithUnderscores(anchor) ==
    [i \in 1..Len(anchor) |-> IF anchor[i] = "-" THEN "_" ELSE anchor[i]]

PlainBullet(b) ==
    /\ \A i \in 2..(Len(b.text) - 1) : b.text[i] \notin {"*", "[", "]"}
    /\ \A i \in 1..Len(b.description) : b.description[i] \notin {"*", "[", "]"}
    /\ lstrip(b.description) # <<>>

\* The text ends a line of s (or s itself).
EndsLine(s, text) ==
    \E i \in 1..Len(s) :
        /\ StartsAt(s, text, i)
        /\ (i + Len(text) = Len(s) + 1 \/ s[i + Len(text)] = "\n")

\* The file holds no shorter link bullet that the bullet's line begins with.
NoShorterBullet(s, b) ==
    \A n \in (b.stem + 1)..(Len(b.line) - 1) : ~EndsLine(s, Slice(b.line, 1, n))

OptionLineAt(s, i) ==
    LET a == RunEnd(s, i, {" "})
        pair == /\ a + 5 <= Len(s)
                /\ s[a] = "-" /\ s[a + 1] \in WordChars
                /\ Slice(s, a + 2, a + 5) = <<",", " ", "-", "-">>
        long == IF pair THEN a + 6 ELSE a + 2
        f == RunEnd(s, long, LowerCase \cup {"-"})
        eol == LineEnd(s, i)
        g == RunEnd(s, f + 1, WordChars)
        typed == /\ f + 1 < eol /\ s[f + 1] \in WordChars
                 /\ g + 1 < eol /\ s[g] = " " /\ s[g + 1] = " "
    IN  IF /\ a - i >= 2
           /\ pair \/ StartsAt(s, <<"-", "-">>, a)
           /\ f > long /\ f < eol /\ s[f] = " "
           /\ strip(Slice(s, IF typed THEN g ELSE f, eol - 1)) # <<>>
        THEN {[flags |-> Slice(s, a, f - 1),
               type |-> IF typed THEN Slice(s, f + 1, g - 1) ELSE <<>>,
               description |-> strip(Slice(s, IF typed THEN g ELSE f, eol - 1))]}
        ELSE {}

OptionLines(s) == UNION {OptionLineAt(s, i) : i \in LineStarts(s)}

\* C6 (as claimed): for every option line the output holds the entry whose
\* term is the whole flag token, with the value type in italics when there
\* is one, in backticks and followed by ::, and the description on the next
\* line, also for long flags with hyphens.
C6_OptionEntries ==
    last.op = "format" =>
        \A o \in OptionLines(last.links) :
            HoldsLines(last.output,
                       Tick \o o.flags
                       \o (IF o.type # <<>> THEN <<" ", "_">> \o o.type \o <<"_">> ELSE <<>>)
                       \o DefMark \o o.description)

=============================================================================
